---------------------------- MODULE Spec2Model ----------------------------
(***************************************************************************)
(* Event persistence and identity rotation of the offen server:            *)
(*   - NewEventID            (persistence, ULID built from the clock)      *)
(*   - AssociateUserSecret   (relational/accounts.go, rotation migration)  *)
(*   - GetAccount            (relational/accounts.go, operator view)       *)
(*   - CreateAccount         (relational/accounts.go, key provisioning)    *)
(*   - postEvents            (router/events.go, the handler around Insert) *)
(*   - Insert                (event store, after spec.md 4.3)              *)
(* The storage engine is modelled as a read-committed store: a statement   *)
(* issued on r.db reads and writes the committed tables, a statement       *)
(* issued on txn is buffered in the transaction and applied by Commit, a   *)
(* row deleted by an open transaction is locked against other writers.     *)
(***************************************************************************)
EXTENDS Integers, Sequences, FiniteSets, TLC

\* ------------------------------------------------------------------ bounds
MaxClock == 3      \* the clock runs over nanoseconds 0..MaxClock
NanosPerMs == 2    \* nanoseconds per ULID millisecond tick (scaled down)
MaxCalls == 2      \* AssociateUserSecret calls per behaviour
MaxInserts == 2    \* successful Insert calls per behaviour
MaxFaults == 1     \* injected storage / randomness failures per behaviour
RaceCalls == 4     \* AssociateUserSecret calls per behaviour of SpecRace
RaceInserts == 1   \* successful Insert calls per behaviour of SpecRace
MaxSalt == 2       \* keys.GenerateRandomString returns one of 1..MaxSalt
MaxKey == 2        \* keys.GenerateRSAKeypair returns one of the pairs 1..MaxKey
ServerInserts == 2 \* events stored by postEvents per behaviour of SpecServer
MaxCreates == 2    \* CreateAccount calls per behaviour of SpecServer

\* the ULID entropy runs over 0..MaxEntropy (80 bits, scaled down): enough
\* values for the seeds of one millisecond to differ
MaxEntropy == NanosPerMs - 1

\* ------------------------------------------------------------------ values
Procs == {1, 2}                      \* concurrent request handlers
AccountIDs == {"acme", "other", "ghost"}
UserIDs == {"alice", "bob"}
\* the (accountID, plaintext userID) pairs callers present
CallInputs == {<<"acme", "alice">>, <<"other", "bob">>, <<"ghost", "alice">>}
\* the (accountID, name) pairs CreateAccount is called with
CreateInputs == {<<"acme", "acme again">>, <<"ghost", "ghost site">>}
\* the (hashedUserIDOrEmpty, accountID) pairs Insert is called with
InsertInputs == {<<"", "acme">>, <<"h1", "acme">>, <<"h1", "other">>, <<"h1", "ghost">>}
\* the (cookie value, accountID) pairs postEvents is requested with
PostInputs == InsertInputs \cup {<<"h2", "acme">>}
NullHash == ""                       \* Event.HashedUserID = nil
NoSecret == 0                        \* zero value of User.EncryptedUserSecret
NoUser == [hashedUserID |-> NullHash, encryptedUserSecret |-> NoSecret]

\* the hash of (userID, salt): deterministic; two salts may send different
\* users to the same hash.
HashOf(userSalt, userID) ==
    IF userSalt % 2 = 1
    THEN (IF userID = "alice" THEN "h1" ELSE "h2")
    ELSE (IF userID = "alice" THEN "h2" ELSE "h1")

\* account.HashUserID(parkedID.String()) of a fresh UUID: a hash no caller
\* can address, the n-th one generated.
ParkedHashOf(n) == <<"p1", "p2", "p3", "p4", "p5", "p6">>[n]

VARIABLES
    accounts,   \* table accounts: accountID -> [name, publicKey,
                \* encryptedSecretKey, userSalt]
    users,      \* table users: set of [hashedUserID, encryptedUserSecret]
    events,     \* table events: set of [eventID, accountID, hashedUserID, payload]
    now,        \* the clock, in nanoseconds
    rngOut,     \* seed -> entropy read from rand.New(rand.NewSource(seed))
    proc,       \* per handler: position in AssociateUserSecret, locals, txn
    nCalls,     \* AssociateUserSecret calls started (names the secret)
    nInserts,   \* Insert calls that wrote (names the payload)
    nParked,    \* parked hashes generated
    faults,     \* storage / randomness failures still to be injected
    born,       \* history: payload -> the account it was inserted under and
                \* the secret that owned its hash at that moment
    created,    \* the last CreateAccount call: its number, accountID, result
    resp        \* the last response of postEvents: status, body, cookie set,
                \* and the request's user id and Insert's outcome (history)

vars == <<accounts, users, events, now, rngOut, proc, nCalls, nInserts, nParked,
          faults, born, created, resp>>

\* ---------------------------------------------------------------- helpers
\* the accountIDs that have an Account row
Accounts == DOMAIN accounts

\* account.HashUserID(userID) of the Account row read for accountID
HashUserID(accountID, userID) == HashOf(accounts[accountID].userSalt, userID)

UserRows(h) == {u \in users : u.hashedUserID = h}
EventsOfHash(h) == {e \in events : e.hashedUserID = h}
EventIDs(es) == {e.eventID : e \in es}

\* ULIDs compare as (timestamp, entropy); String() keeps that order.
IdLess(a, b) == a[1] < b[1] \/ (a[1] = b[1] /\ a[2] < b[2])

\* ulid.Timestamp(t): milliseconds of t.
Timestamp(t) == t \div NanosPerMs

\* ulid.New(ulid.Timestamp(t), ulid.Monotonic(rand.New(rand.NewSource(
\* t.UnixNano())), 0)): the monotonic reader is new in every call, so its
\* first (and only) read takes the entropy from the source seeded with t.
ULIDNew(t, entropy) == <<Timestamp(t), entropy>>

\* NewEventID reading the clock at t: the identifiers it can return, and the
\* entropy source's output remembered per seed (same seed, same output; two
\* seeds of one millisecond, different outputs).
NewEventID(t, id) ==
    /\ t \in now..MaxClock
    /\ \E e \in 0..MaxEntropy :
          /\ (t \in DOMAIN rngOut => e = rngOut[t])
          /\ \A s \in DOMAIN rngOut \ {t} :
                Timestamp(s) = Timestamp(t) => rngOut[s] # e
          /\ id = ULIDNew(t, e)
          /\ rngOut' = [s \in DOMAIN rngOut \cup {t} |-> IF s = t THEN e ELSE rngOut[s]]
    /\ now' = t

AllSeqs(S) ==
    {f \in [1..Cardinality(S) -> S] : \A x \in S : \E i \in DOMAIN f : f[i] = x}

\* ------------------------------------------------------------ transactions
NoTxn == [state |-> "none", createdUsers |-> {}, deletedUsers |-> {},
          deletedEvents |-> {}, createdEvents |-> {}]

\* r.db.Begin()
Begin == [NoTxn EXCEPT !.state = "open"]

\* txn.Rollback(): the buffered writes are dropped.
Rollback(t) == [NoTxn EXCEPT !.state = "rolledback"]

OpenOthers(p) == {q \in Procs \ {p} : proc[q].txn.state = "open"}

\* a row deleted by another open transaction is locked
UserLocked(p, h) == \E q \in OpenOthers(p) : h \in proc[q].txn.deletedUsers
EventLocked(p, id) == \E q \in OpenOthers(p) : id \in proc[q].txn.deletedEvents
EventIDPending(p, id) ==
    \E q \in OpenOthers(p) : id \in EventIDs(proc[q].txn.createdEvents)

\* txn.Commit(): the tables after the buffered writes are applied.
CommittedUsers(t) ==
    {u \in users : u.hashedUserID \notin t.deletedUsers} \cup t.createdUsers
CommittedEvents(t) ==
    {e \in events : e.eventID \notin t.deletedEvents} \cup t.createdEvents

\* ------------------------------------------------------------------- init
IdleProc == [pc |-> "idle", accountID |-> "", secret |-> NoSecret,
             hashedUserID |-> NullHash, user |-> NoUser,
             \* migrated: the stale branch was taken; wrote: the call changed
             \* a committed table; preBound: the payloads bound to
             \* hashedUserID when the call began; processed: passes of the
             \* migration loop completed (history)
             parkedHash |-> NullHash, affected |-> <<>>,
             txn |-> NoTxn, result |-> "none", err |-> "none",
             migrated |-> FALSE, wrote |-> FALSE, preBound |-> {},
             processed |-> 0]

\* r.encryption.Encrypt(privateKey) of key pair k
Encrypt(k) == k + MaxKey

\* the Account row CreateAccount saves
AccountRow(name, k, userSalt) ==
    [name |-> name, publicKey |-> k, encryptedSecretKey |-> Encrypt(k),
     userSalt |-> userSalt]

\* two accounts provisioned before the first request
InitialAccounts ==
    [a \in {"acme", "other"} |->
        IF a = "acme" THEN AccountRow("acme site", 1, 1)
        ELSE AccountRow("other site", 2, 2)]

\* no request answered yet
NoResponse == [status |-> 0, ack |-> FALSE, cookie |-> "", userID |-> "",
               outcome |-> "none"]

\* the store with two accounts and no users or events, with faultBudget
\* failures to inject
InitWith(faultBudget) ==
    /\ accounts = InitialAccounts
    /\ users = {}
    /\ events = {}
    /\ now = 0
    /\ rngOut = <<>>
    /\ proc = [p \in Procs |-> IdleProc]
    /\ nCalls = 0
    /\ nInserts = 0
    /\ nParked = 0
    /\ faults = faultBudget
    /\ born = <<>>
    /\ created = [n |-> 0, accountID |-> "", result |-> "none"]
    /\ resp = NoResponse

Init == InitWith(MaxFaults)

\* ---------------------------------------------------------------- actions
Set(p, rec) == proc' = [proc EXCEPT ![p] = rec]

\* one more injected failure of a storage or randomness call
Fault == faults > 0 /\ faults' = faults - 1
NoFault == faults' = faults

\* a rollback that lets the buffered event writes through
RolledBackEvents_Applied(t) == CommittedEvents(t)

\* the committed tables after txn.Rollback()
RolledBackUsers(t) == users
RolledBackEvents(t) == events

\* history: has this call changed a committed table
Wrote(p) == proc[p].wrote \/ users' # users \/ events' # events

\* return fmt.Errorf(...), the transaction left as `t`
ReturnError(p, t) ==
    Set(p, [proc[p] EXCEPT !.pc = "idle", !.result = "err",
                           !.err = "generic",
                           !.txn = t, !.wrote = Wrote(p)])

\* txn.Rollback(); return fmt.Errorf(...)
Abort(p) ==
    /\ users' = RolledBackUsers(proc[p].txn)
    /\ events' = RolledBackEvents(proc[p].txn)
    /\ ReturnError(p, Rollback(proc[p].txn))

\* AssociateUserSecret, the account lookup and the hash
Call(p, accountID, userID) ==
    /\ proc[p].pc = "idle"
    /\ \A q \in Procs : q < p => proc[q].pc # "idle"   \* idle handlers are alike
    /\ nCalls' = nCalls + 1
    /\ LET h == HashUserID(accountID, userID)
           fresh == [IdleProc EXCEPT !.accountID = accountID,
                                     !.secret = nCalls + 1]
       IN \/ /\ accountID \notin Accounts
             /\ NoFault
             /\ Set(p, [fresh EXCEPT !.result = "err", !.err = "generic"])
          \/ /\ accountID \in Accounts
             /\ Fault
             /\ Set(p, [fresh EXCEPT !.result = "err", !.err = "generic"])
          \/ /\ accountID \in Accounts
             /\ NoFault
             /\ Set(p, [fresh EXCEPT !.pc = "lookup", !.hashedUserID = h,
                           !.preBound = {e.payload : e \in EventsOfHash(h)}])
    /\ UNCHANGED <<accounts, created, resp, users, events, now, rngOut, nInserts, nParked, born>>

\* txn := r.db.Begin(); r.db.First(&user, "hashed_user_id = ?", hashedUserID)
Lookup(p) ==
    /\ proc[p].pc = "lookup"
    /\ UNCHANGED <<accounts, created, resp, users, events, now, rngOut, nCalls, nInserts, nParked,
                   born>>
    /\ LET h == proc[p].hashedUserID
       IN \/ /\ Fault
             /\ ReturnError(p, Begin)
          \/ /\ NoFault
             /\ UserRows(h) = {}
             /\ Set(p, [proc[p] EXCEPT !.pc = "commit", !.txn = Begin])
          \/ /\ NoFault
             /\ \E u \in UserRows(h) :
                   Set(p, [proc[p] EXCEPT !.pc = "park", !.txn = Begin,
                                          !.user = u, !.migrated = TRUE])

\* uuid.NewV4(); txn.Create(&user) under parkedHash; txn.Delete(&User{}, hashedUserID)
Park(p) ==
    /\ proc[p].pc = "park"
    /\ LET h == proc[p].hashedUserID
           parkedHash == ParkedHashOf(nParked + 1)
           parked == [hashedUserID |-> parkedHash,
                      encryptedUserSecret |-> proc[p].user.encryptedUserSecret]
       IN \/ /\ Fault
             /\ Abort(p)
             /\ UNCHANGED nParked
          \/ /\ NoFault
             /\ ~UserLocked(p, h)
             /\ nParked' = nParked + 1
             /\ Set(p, [proc[p] EXCEPT
                   !.pc = "find",
                   !.parkedHash = parkedHash,
                   !.txn.createdUsers = {parked},
                   !.txn.deletedUsers = IF UserRows(h) = {} THEN {} ELSE {h}])
             /\ UNCHANGED <<users, events>>
    /\ UNCHANGED <<accounts, created, resp, now, rngOut, nCalls, nInserts, born>>

\* r.db.Find(&affected, "hashed_user_id = ?", hashedUserID), its error dropped
FindAffected(p) ==
    /\ proc[p].pc = "find"
    /\ \/ /\ Fault
          /\ Set(p, [proc[p] EXCEPT !.pc = "commit", !.affected = <<>>])
       \/ /\ NoFault
          /\ \E found \in AllSeqs(EventsOfHash(proc[p].hashedUserID)) :
                Set(p, [proc[p] EXCEPT
                      !.pc = IF found = <<>> THEN "commit" ELSE "migrate",
                      !.affected = found])
    /\ UNCHANGED <<accounts, created, resp, users, events, now, rngOut, nCalls, nInserts, nParked,
                   born>>

\* one pass of the loop: newEventID(); txn.Delete(event); txn.Create(&ev)
MigrateEvent(p) ==
    /\ proc[p].pc = "migrate"
    /\ LET ev == Head(proc[p].affected)
           rest == Tail(proc[p].affected)
           t == proc[p].txn
       IN \/ /\ Fault
             /\ Abort(p)
             /\ UNCHANGED <<now, rngOut>>
          \/ /\ NoFault
             /\ ~EventLocked(p, ev.eventID)
             /\ \E clock \in now..MaxClock, newID \in (0..MaxClock) \X (0..MaxEntropy) :
                   /\ NewEventID(clock, newID)
                   /\ ~EventIDPending(p, newID)
                   /\ LET deleted == IF ev.eventID \in EventIDs(events)
                                     THEN t.deletedEvents \cup {ev.eventID}
                                     ELSE t.deletedEvents
                          visible == EventIDs({e \in events : e.eventID \notin deleted})
                                       \cup EventIDs(t.createdEvents)
                          moved == [ev EXCEPT !.eventID = newID,
                                              !.hashedUserID = proc[p].parkedHash]
                      IN IF newID \in visible
                         THEN Abort(p)
                         ELSE /\ Set(p, [proc[p] EXCEPT
                                    !.pc = IF rest = <<>> THEN "commit" ELSE "migrate",
                                    !.affected = rest,
                                    !.processed = @ + 1,
                                    !.txn.deletedEvents = deleted,
                                    !.txn.createdEvents = t.createdEvents \cup {moved}])
                              /\ UNCHANGED <<users, events>>
    /\ UNCHANGED <<accounts, created, resp, nCalls, nInserts, nParked, born>>

\* txn.Commit()
Commit(p) ==
    /\ proc[p].pc = "commit"
    /\ \/ /\ Fault
          /\ UNCHANGED <<users, events>>
          /\ ReturnError(p, [NoTxn EXCEPT !.state = "commitFailed"])
       \/ /\ NoFault
          /\ users' = CommittedUsers(proc[p].txn)
          /\ events' = CommittedEvents(proc[p].txn)
          /\ Set(p, [proc[p] EXCEPT !.pc = "create", !.wrote = Wrote(p),
                                    !.txn = [NoTxn EXCEPT !.state = "committed"]])
    /\ UNCHANGED <<accounts, created, resp, now, rngOut, nCalls, nInserts, nParked, born>>

\* the row inserted under a fresh parked hash instead of hashedUserID
NewUserRow_UnderParkedHash(p) ==
    [hashedUserID |-> ParkedHashOf(nParked + 1),
     encryptedUserSecret |-> proc[p].secret]

\* the row built from the secret read by First instead of the caller's
NewUserRow_StaleSecret(p) ==
    [hashedUserID |-> proc[p].hashedUserID,
     encryptedUserSecret |-> proc[p].user.encryptedUserSecret]

\* &User{EncryptedUserSecret: encryptedUserSecret, HashedUserID: hashedUserID}
NewUserRow(p) ==
    [hashedUserID |-> proc[p].hashedUserID, encryptedUserSecret |-> proc[p].secret]

\* return r.db.Create(&User{...}).Error; hashed_user_id is the primary key
CreateUser(p) ==
    /\ proc[p].pc = "create"
    /\ UNCHANGED <<accounts, created, resp, events, now, rngOut, nCalls, nInserts, nParked, born>>
    /\ LET h == proc[p].hashedUserID
           row == NewUserRow(p)
       IN \/ /\ Fault
             /\ UNCHANGED users
             /\ ReturnError(p, proc[p].txn)
          \/ /\ NoFault
             /\ ~UserLocked(p, h)
             /\ IF UserRows(h) # {}
                THEN /\ UNCHANGED users
                     /\ ReturnError(p, proc[p].txn)
                ELSE /\ users' = users \cup {row}
                     /\ Set(p, [proc[p] EXCEPT !.pc = "idle", !.result = "ok",
                                               !.wrote = TRUE])

\* what Insert can return
InsertOutcomes == {"ok", "UnknownAccount", "UnknownUser", "error"}

\* Insert(hashedUserIDOrEmpty, accountID, payload) returning `outcome`
InsertReturns(h, accountID, outcome) ==
    \/ /\ accountID \notin Accounts
       /\ outcome = "UnknownAccount"
       /\ UNCHANGED <<events, now, rngOut, nInserts, born>>
    \/ /\ accountID \in Accounts
       /\ h # NullHash /\ UserRows(h) = {}
       /\ outcome = "UnknownUser"
       /\ UNCHANGED <<events, now, rngOut, nInserts, born>>
    \/ /\ accountID \in Accounts
       /\ h = NullHash \/ UserRows(h) # {}
       /\ \E clock \in now..MaxClock, id \in (0..MaxClock) \X (0..MaxEntropy) :
             /\ NewEventID(clock, id)
             /\ ~EventIDPending(0, id)
             /\ LET payload == nInserts + 1
                    ev == [eventID |-> id, accountID |-> accountID,
                           hashedUserID |-> h, payload |-> payload]
                    owner == IF h = NullHash THEN NoSecret
                             ELSE (CHOOSE u \in UserRows(h) : TRUE).encryptedUserSecret
                IN IF id \in EventIDs(events)
                   THEN /\ outcome = "error"      \* event_id is the primary key
                        /\ UNCHANGED <<events, nInserts, born>>
                   ELSE /\ outcome = "ok"
                        /\ events' = events \cup {ev}
                        /\ nInserts' = nInserts + 1
                        /\ born' = [x \in DOMAIN born \cup {payload} |->
                                      IF x = payload
                                      THEN [accountID |-> accountID, secret |-> owner]
                                      ELSE born[x]]

\* Insert called by a client whose response is not observed
Insert(h, accountID) ==
    /\ \E outcome \in InsertOutcomes : InsertReturns(h, accountID, outcome)
    /\ UNCHANGED <<accounts, created, resp, users, proc, nCalls, nParked, faults>>

\* the status postEvents answers Insert's outcome with
StatusOf_UnknownUserAsServerError(outcome) ==
    IF outcome = "ok" THEN 201
    ELSE IF outcome = "UnknownAccount" THEN 404
    ELSE 500

\* http.StatusCreated / StatusNotFound / StatusBadRequest /
\* StatusInternalServerError, by the type of Insert's error
StatusOf(outcome) ==
    IF outcome = "ok" THEN 201
    ELSE IF outcome = "UnknownAccount" THEN 404
    ELSE IF outcome = "UnknownUser" THEN 400
    ELSE 500

\* postEvents: userID is the cookie's value ("" without a cookie), bindOK
\* tells whether c.BindJSON decoded the body
postEvents(userID, accountID, bindOK) ==
    /\ \/ /\ ~bindOK
          /\ resp' = [NoResponse EXCEPT !.status = 400, !.userID = userID]
          /\ UNCHANGED <<events, now, rngOut, nInserts, born>>
       \/ /\ bindOK
          /\ \E outcome \in InsertOutcomes :
                /\ InsertReturns(userID, accountID, outcome)
                /\ resp' = [status |-> StatusOf(outcome),
                            ack |-> (outcome = "ok"),
                            cookie |-> IF outcome = "ok" /\ userID # ""
                                       THEN userID ELSE "",
                            userID |-> userID,
                            outcome |-> outcome]
    /\ UNCHANGED <<accounts, created, users, proc, nCalls, nParked, faults>>

\* the calls CreateAccount makes, in order
CreateStages == <<"salt", "keypair", "encrypt", "save">>

\* r.db.Save(&Account{...}): the row with this primary key is inserted, or
\* every field of the existing row is overwritten
Save(accountID, row) ==
    [a \in DOMAIN accounts \cup {accountID} |->
        IF a = accountID THEN row ELSE accounts[a]]

\* a save that writes the row though the call reports a failure
FailedCreate_RowWritten(accountID, name) ==
    Save(accountID, AccountRow(name, 1, 1))

\* the accounts table after a CreateAccount call that returned an error
FailedCreate(accountID, name) == accounts

\* CreateAccount(accountID, name)
CreateAccount(accountID, name) ==
    /\ \/ /\ Fault
          /\ \E i \in DOMAIN CreateStages :
                /\ accounts' = FailedCreate(accountID, name)
                /\ created' = [n |-> created.n + 1, accountID |-> accountID,
                               result |-> CreateStages[i]]
       \/ /\ NoFault
          /\ \E userSalt \in 1..MaxSalt, k \in 1..MaxKey :
                accounts' = Save(accountID, AccountRow(name, k, userSalt))
          /\ created' = [n |-> created.n + 1, accountID |-> accountID,
                         result |-> "ok"]
    /\ UNCHANGED <<users, events, now, rngOut, proc, nCalls, nInserts, nParked,
                   born, resp>>

\* the workload: at most maxCalls calls and maxInserts stored inserts
CallUpTo(maxCalls, p, accountID, userID) ==
    nCalls < maxCalls /\ Call(p, accountID, userID)
InsertUpTo(maxInserts, h, accountID) ==
    nInserts < maxInserts /\ Insert(h, accountID)

PostUpTo(maxInserts, userID, accountID, bindOK) ==
    nInserts < maxInserts /\ postEvents(userID, accountID, bindOK)
CreateUpTo(maxCreates, accountID, name) ==
    created.n < maxCreates /\ CreateAccount(accountID, name)

\* the steps of the AssociateUserSecret calls
AssociateSteps(maxCalls) ==
    \/ \E p \in Procs, in \in CallInputs : CallUpTo(maxCalls, p, in[1], in[2])
    \/ \E p \in Procs : Lookup(p)
    \/ \E p \in Procs : Park(p)
    \/ \E p \in Procs : FindAffected(p)
    \/ \E p \in Procs : MigrateEvent(p)
    \/ \E p \in Procs : Commit(p)
    \/ \E p \in Procs : CreateUser(p)

NextBounded(maxCalls, maxInserts) ==
    \/ AssociateSteps(maxCalls)
    \/ \E in \in InsertInputs : InsertUpTo(maxInserts, in[1], in[2])

Next == NextBounded(MaxCalls, MaxInserts)

Spec == Init /\ [][Next]_vars

\* more calls, fewer inserts, a storage that does not fail: the interleavings
\* of rotations racing each other
InitRace == InitWith(0)
NextRace == NextBounded(RaceCalls, RaceInserts)
SpecRace == InitRace /\ [][NextRace]_vars

\* the store after AssociateUserSecret(acme, alice, secret 1) returned nil on
\* handler 1
InitServer ==
    /\ accounts = InitialAccounts
    /\ users = {[hashedUserID |-> HashOf(InitialAccounts["acme"].userSalt, "alice"),
                 encryptedUserSecret |-> 1]}
    /\ events = {}
    /\ now = 0
    /\ rngOut = <<>>
    /\ proc = [p \in Procs |->
                 IF p = 1
                 THEN [IdleProc EXCEPT
                         !.accountID = "acme", !.secret = 1,
                         !.hashedUserID = HashOf(InitialAccounts["acme"].userSalt, "alice"),
                         !.txn = [NoTxn EXCEPT !.state = "committed"],
                         !.result = "ok", !.wrote = TRUE]
                 ELSE IdleProc]
    /\ nCalls = 1
    /\ nInserts = 0
    /\ nParked = 0
    /\ faults = MaxFaults
    /\ born = <<>>
    /\ created = [n |-> 0, accountID |-> "", result |-> "none"]
    /\ resp = NoResponse

\* the server: accounts are provisioned and events arrive through the
\* postEvents handler
NextServer ==
    \/ \E in \in CreateInputs : CreateUpTo(MaxCreates, in[1], in[2])
    \/ \E in \in PostInputs, bindOK \in BOOLEAN :
          PostUpTo(ServerInserts, in[1], in[2], bindOK)
SpecServer == InitServer /\ [][NextServer]_vars

\* ------------------------------------------------------------- GetAccount
NoCursor == <<>>     \* eventsSince = ""

\* Preload("Events") / Preload("Events", "event_id > ?", eventsSince)
PreloadEvents(accountID, eventsSince) ==
    {e \in events : /\ e.accountID = accountID
                    /\ (eventsSince = NoCursor \/ IdLess(eventsSince, e.eventID))}

\* Preload("Events.User"): the users row of the event's hash, or the zero User
PreloadUser(e) ==
    IF UserRows(e.hashedUserID) = {} THEN NoUser
    ELSE CHOOSE u \in UserRows(e.hashedUserID) : TRUE

\* userSecrets[*evt.HashedUserID] = evt.User.EncryptedUserSecret
GetAccountUserSecrets(accountID, eventsSince) ==
    LET loaded == {e \in PreloadEvents(accountID, eventsSince) :
                      e.hashedUserID # NullHash}
    IN [h \in {e.hashedUserID : e \in loaded} |->
          PreloadUser(CHOOSE e \in loaded : e.hashedUserID = h).encryptedUserSecret]

\* zero value of AccountResult.PublicKey / EncryptedSecretKey
NoKey == 0

\* return persistence.AccountResult{}, err
GetAccountError(class) ==
    [err |-> class, accountID |-> "", publicKey |-> NoKey,
     encryptedSecretKey |-> NoKey, events |-> {}, userSecrets |-> <<>>]

\* GetAccount(accountID, events, eventsSince); failure names the call that
\* fails: "find" (the query), "wrap" (account.WrapPublicKey) or "none"
GetAccount(accountID, withEvents, eventsSince, failure) ==
    IF failure = "find" THEN GetAccountError("generic")
    ELSE IF accountID \notin Accounts THEN GetAccountError("UnknownAccount")
    ELSE IF failure = "wrap" THEN GetAccountError("generic")
    ELSE [err |-> "none",
          accountID |-> accountID,
          publicKey |-> IF withEvents THEN NoKey
                        ELSE accounts[accountID].publicKey,
          encryptedSecretKey |-> IF withEvents
                                 THEN accounts[accountID].encryptedSecretKey
                                 ELSE NoKey,
          events |-> IF withEvents THEN PreloadEvents(accountID, eventsSince)
                     ELSE {},
          userSecrets |-> IF withEvents
                          THEN GetAccountUserSecrets(accountID, eventsSince)
                          ELSE <<>>]

\* ------------------------------------------------------------- properties
\* hashes callers can address; every other hash is a parked one
IsParked(h) == h \notin {NullHash, "h1", "h2"}

\* events that still carry the eventID Insert gave them
Unmigrated == {e \in events : ~IsParked(e.hashedUserID)}

\* the identifiers NewEventID has returned so far
Issued == {ULIDNew(t, rngOut[t]) : t \in DOMAIN rngOut}

\* the identifiers this step attaches to an event: the one Insert writes, the
\* one a pass of the migration loop reinserts under
AttachedNow ==
    (IF nInserts' # nInserts THEN EventIDs(events') \ EventIDs(events) ELSE {})
    \cup UNION {EventIDs(proc'[p].txn.createdEvents)
                  \ EventIDs(proc[p].txn.createdEvents) : p \in Procs}

\* C7: the eventIDs of the events inserted under one account increase
\* strictly in insertion order (payloads are numbered in insertion order),
\* also for inserts within one millisecond.
C7_EventIDsFollowInsertionOrder ==
    \A e1, e2 \in Unmigrated :
        (e1.accountID = e2.accountID /\ e1.payload < e2.payload)
            => IdLess(e1.eventID, e2.eventID)

\* C8: NewEventID never returns an identifier it has returned before, also
\* when two invocations observe the same clock value.
C8_NeverSameIDTwice == [][AttachedNow \cap Issued = {}]_vars

\* the handler's last call returned nil / an error
ReturnedOK(p) == proc[p].pc = "idle" /\ proc[p].result = "ok"
ReturnedError(p) == proc[p].pc = "idle" /\ proc[p].result = "err"

\* the stored events that were bound to the call's hashedUserID when it began
PreBoundEvents(p) == {e \in events : e.payload \in proc[p].preBound}

\* C1: after a successful AssociateUserSecret that found a UserSecret for
\* hashedUserID, no event bound to hashedUserID before the call is still
\* bound to it (a user-scoped read by hashedUserID returns none of them), all
\* of them are bound to one and the same parked hash, and their number is
\* unchanged.
C1_RotationRelocatesHistory ==
    \A p \in Procs :
        (ReturnedOK(p) /\ proc[p].migrated) =>
            /\ PreBoundEvents(p) \cap EventsOfHash(proc[p].hashedUserID) = {}
            /\ \E ph \in {e.hashedUserID : e \in PreBoundEvents(p)} \cup {"p1"} :
                  /\ IsParked(ph)
                  /\ \A e \in PreBoundEvents(p) : e.hashedUserID = ph
            /\ Cardinality(PreBoundEvents(p)) = Cardinality(proc[p].preBound)

\* no AssociateUserSecret call is in flight
AllReturned == \A p \in Procs : proc[p].pc = "idle"

\* C2: a call that returns an error before its transaction committed has
\* changed neither table, whatever number of events it had processed.
C2_FailureBeforeCommitLeavesTables ==
    \A p \in Procs :
        (ReturnedError(p) /\ proc[p].txn.state # "committed") => ~proc[p].wrote

\* a call failed in the migration loop after it had reinserted an event
C2_Witness_FailedAfterFirstEvent ==
    \E p \in Procs :
        /\ ReturnedError(p)
        /\ proc[p].txn.state = "rolledback"
        /\ proc[p].processed >= 1

\* C3: with Insert running concurrently with AssociateUserSecret (and no
\* storage failure), no state is half-migrated: every event bound to a
\* hashedUserID has a UserSecret row for it, and no two events share an
\* eventID.
C3_NoHalfMigratedState ==
    faults = MaxFaults =>
        /\ \A e \in events : e.hashedUserID # NullHash => UserRows(e.hashedUserID) # {}
        /\ \A e1, e2 \in events : e1.eventID = e2.eventID => e1 = e2

\* C5: at most one UserSecret row per hashedUserID in every state, and the
\* step in which AssociateUserSecret returns nil leaves exactly one row for
\* hashedUserID, holding the caller-supplied secret.
C5_OneSecretPerHash ==
    [][/\ \A u1, u2 \in users' : u1.hashedUserID = u2.hashedUserID => u1 = u2
       /\ \A p \in Procs :
            (proc[p].pc = "create" /\ proc'[p].pc = "idle" /\ proc'[p].result = "ok")
                => {u \in users' : u.hashedUserID = proc[p].hashedUserID}
                     = {[hashedUserID |-> proc[p].hashedUserID,
                         encryptedUserSecret |-> proc[p].secret]}]_vars

\* two calls raced on one hash; one returned nil, the other an error
C5_Witness_RacingCalls ==
    \E p, q \in Procs :
        /\ p # q
        /\ ReturnedOK(p) /\ ReturnedError(q)
        /\ proc[p].hashedUserID = proc[q].hashedUserID
        /\ proc[q].txn.state = "committed"
        /\ UserRows(proc[p].hashedUserID) # {}

\* C6: histories are relocated, never merged: once the calls have returned
\* (no storage failure), the operator view joins every event with the
\* secret that owned its hash when the event was inserted.
C6_HistoriesNeverMerged ==
    (AllReturned /\ faults = MaxFaults) =>
        \A e \in events :
            e.hashedUserID # NullHash =>
                GetAccountUserSecrets(e.accountID, NoCursor)[e.hashedUserID]
                    = born[e.payload].secret

\* C9: payload and accountID of an event never change, eventID and
\* hashedUserID change only together, the old eventID is then absent from
\* storage and the new one was not stored before.
C9_IdentityChangesOnlyTogether ==
    [][\A e \in events, f \in events' :
          e.payload = f.payload =>
             /\ f.accountID = e.accountID
             /\ (f.hashedUserID # e.hashedUserID) <=> (f.eventID # e.eventID)
             /\ f.eventID # e.eventID =>
                   /\ e.eventID \notin EventIDs(events')
                   /\ f.eventID \notin EventIDs(events)]_vars

\* C10: whenever AssociateUserSecret returns an error, at whichever step,
\* the call has changed neither table.
C10_ErrorLeavesNoPartialState ==
    \A p \in Procs : ReturnedError(p) => ~proc[p].wrote

\* C4: migration neither loses nor duplicates events: once all calls have
\* returned, each inserted event is stored exactly once, with the accountID
\* it was inserted under.
C4_NoEventLostOrDuplicated ==
    AllReturned =>
        \A n \in DOMAIN born :
            /\ Cardinality({e \in events : e.payload = n}) = 1
            /\ \A e \in events : e.payload = n => e.accountID = born[n].accountID

\* C11: a call that has returned has no transaction left open: every return
\* after Begin leaves the transaction committed, rolled back, or ended by a
\* failed Commit.
C11_NoTransactionLeftOpen ==
    \A p \in Procs : proc[p].pc = "idle" => proc[p].txn.state # "open"

\* C12: no storage failure is swallowed: the step of a call in which a
\* storage or randomness call fails is the step in which the call returns an
\* error.
C12_FailureIsReturned ==
    [][\A p \in Procs :
          (faults' < faults /\ proc'[p] # proc[p]) =>
              (proc'[p].pc = "idle" /\ proc'[p].result = "err")]_vars

\* C13: an operation on an accountID that has no Account row returns the
\* typed UnknownAccount error and writes nothing, GetAccount and
\* AssociateUserSecret alike.
C13_UnknownAccountIsTyped ==
    [][/\ \A a \in AccountIDs \ Accounts, withEvents \in BOOLEAN :
             GetAccount(a, withEvents, NoCursor, "none").err = "UnknownAccount"
       /\ \A p \in Procs :
             (/\ proc[p].pc = "idle"
              /\ proc'[p] # proc[p]
              /\ proc'[p].accountID \notin Accounts)
                 => /\ proc'[p].pc = "idle"
                    /\ proc'[p].err = "UnknownAccount"
                    /\ users' = users /\ events' = events]_vars

\* C14: once an Account exists, its userSalt, publicKey and
\* encryptedPrivateKey never change, a further CreateAccount with the same
\* accountID included, so the hash of every plaintext user id under the
\* account's salt stays the same.
C14_AccountKeysAndSaltNeverChange ==
    [][\A a \in DOMAIN accounts :
          /\ a \in DOMAIN accounts'
          /\ accounts'[a].userSalt = accounts[a].userSalt
          /\ accounts'[a].publicKey = accounts[a].publicKey
          /\ accounts'[a].encryptedSecretKey = accounts[a].encryptedSecretKey
          /\ \A u \in UserIDs :
                HashOf(accounts'[a].userSalt, u) = HashOf(accounts[a].userSalt, u)]_vars

\* C16: CreateAccount never creates a partial account: a call that returns
\* an error (salt, key pair, encryption or the save failed) writes no
\* Account row; a call that returns nil has written one row, the one of its
\* accountID, with name, publicKey, encryptedPrivateKey and userSalt set.
C16_NoPartialAccount ==
    [][created'.n # created.n =>
          LET a == created'.accountID
          IN IF created'.result = "ok"
             THEN /\ a \in DOMAIN accounts'
                  /\ \A b \in DOMAIN accounts' \ {a} :
                        b \in DOMAIN accounts /\ accounts'[b] = accounts[b]
                  /\ DOMAIN accounts \subseteq DOMAIN accounts'
                  /\ accounts'[a].name # ""
                  /\ accounts'[a].publicKey \in 1..MaxKey
                  /\ accounts'[a].encryptedSecretKey = Encrypt(accounts'[a].publicKey)
                  /\ accounts'[a].encryptedSecretKey # NoKey
                  /\ accounts'[a].userSalt \in 1..MaxSalt
             ELSE accounts' = accounts]_vars

\* a CreateAccount call failed, the next one created the account
C16_Witness_FailedThenCreated ==
    /\ created.n = 2
    /\ created.result = "ok"
    /\ faults < MaxFaults
    /\ created.accountID \in Accounts \ DOMAIN InitialAccounts

\* C19: postEvents maps Insert's outcome one-to-one: success gives 201 with
\* ack, UnknownAccount 404, UnknownUser 400, any other error 500; the user
\* cookie is set only when Insert succeeded and the request carried a
\* non-empty user id.
C19_StatusFollowsInsertOutcome ==
    /\ resp.outcome = "ok" <=> (resp.status = 201 /\ resp.ack)
    /\ resp.outcome = "UnknownAccount" <=> resp.status = 404
    /\ resp.outcome = "UnknownUser" <=> (resp.status = 400 /\ resp.outcome # "none")
    /\ resp.outcome = "error" <=> resp.status = 500
    /\ resp.status # 201 => ~resp.ack
    /\ resp.cookie # "" <=> (resp.outcome = "ok" /\ resp.userID # "")
    /\ resp.cookie \in {"", resp.userID}

\* an event of a known user was stored and answered with 201 and the cookie
C19_Witness_CreatedWithCookie ==
    /\ resp.outcome = "ok"
    /\ resp.status = 201
    /\ resp.userID # ""
    /\ resp.cookie = resp.userID
    /\ \E e \in events : e.hashedUserID = resp.userID

\* C15: a step of AssociateUserSecret on account A leaves the events of
\* every other account unchanged, also when a hashedUserID of A is in use in
\* another account.
C15_OtherAccountsEventsUntouched ==
    [][\A p \in Procs :
          proc'[p] # proc[p] =>
              {e \in events' : e.accountID # proc'[p].accountID}
                  = {e \in events : e.accountID # proc'[p].accountID}]_vars

\* C17: a call that found no UserSecret for hashedUserID changes no event
\* and creates no parked hash at any of its steps, and the step in which it
\* returns nil inserts exactly one UserSecret row, (hashedUserID, the
\* caller's secret), leaving every other row as it was; its other steps
\* leave the users table unchanged.
C17_FirstAssociationOnlyInserts ==
    [][\A p \in Procs :
          (proc'[p] # proc[p] /\ ~proc'[p].migrated) =>
              /\ events' = events
              /\ nParked' = nParked
              /\ IF proc[p].pc = "create" /\ proc'[p].result = "ok"
                 THEN /\ users' = users \cup {[hashedUserID |-> proc[p].hashedUserID,
                                               encryptedUserSecret |-> proc[p].secret]}
                      /\ Cardinality(users') = Cardinality(users) + 1
                 ELSE users' = users]_vars

\* a first association returned nil while the store held events
C17_Witness_FirstAssociation ==
    \E p \in Procs :
        /\ ReturnedOK(p) /\ ~proc[p].migrated
        /\ UserRows(proc[p].hashedUserID)
              = {[hashedUserID |-> proc[p].hashedUserID,
                  encryptedUserSecret |-> proc[p].secret]}
        /\ events # {}
        /\ born[1].secret = NoSecret

\* C18: the migration keeps the relative order of the events it moves: two
\* events of one hash that a step reissues under one parked hash keep the
\* order of their eventIDs.
C18_MigrationKeepsOrder ==
    [][\A e1, e2 \in events, f1, f2 \in events' :
          (/\ f1.payload = e1.payload /\ f2.payload = e2.payload
           /\ e1.hashedUserID = e2.hashedUserID
           /\ f1.hashedUserID = f2.hashedUserID
           /\ f1.eventID # e1.eventID /\ f2.eventID # e2.eventID
           /\ IdLess(e1.eventID, e2.eventID))
              => IdLess(f1.eventID, f2.eventID)]_vars

\* the cursors a client can hold: no cursor, or an eventID
Cursors == {NoCursor} \cup ((0..Timestamp(MaxClock)) \X (0..MaxEntropy))

\* C20: GetAccount with events returns exactly the account's events with an
\* eventID greater than the cursor (all without a cursor), and userSecrets
\* has an entry for exactly the non-null hashes of the returned events,
\* each mapped to the secret stored for that hash; without events it
\* returns no events and no user secrets.
C20_GetAccountReturnsEventsAndSecrets ==
    \A a \in Accounts, c \in Cursors :
        LET with == GetAccount(a, TRUE, c, "none")
            without == GetAccount(a, FALSE, c, "none")
        IN /\ with.err = "none" /\ without.err = "none"
           /\ with.events = {e \in events : /\ e.accountID = a
                                              /\ (c # NoCursor => IdLess(c, e.eventID))}
           /\ DOMAIN with.userSecrets
                 = {e.hashedUserID : e \in with.events} \ {NullHash}
           /\ \A h \in DOMAIN with.userSecrets :
                 UserRows(h) = {[hashedUserID |-> h,
                                 encryptedUserSecret |-> with.userSecrets[h]]}
           /\ without.events = {}
           /\ without.userSecrets = <<>>

=============================================================================
